---- MODULE Spec2Model ----
(***************************************************************************)
(* Model of scripts/setup.py: the setup sequencer of the Oasis Hub         *)
(* development environment.  main() checks two project directories and,    *)
(* for each one that has a package.json, runs a fixed list of npm commands *)
(* through run_command(), and-ing every result into `success`.             *)
(*                                                                         *)
(* The external world (the filesystem, the spawned shells) is the          *)
(* environment: which directories and manifests exist, whether a process   *)
(* can be created, whether it ever exits, its return code and its stderr.  *)
(* Printed lines are modelled as tuples <<kind, text...>> appended to      *)
(* `log`; the decorative emoji of the source are left out of the text.     *)
(***************************************************************************)
EXTENDS Integers, Sequences, FiniteSets

VARIABLES
    pc,          \* position of the interpreter in main()/run_command()
    fs,          \* filesystem under project_root: per directory, what exists
    success,     \* the local `success` of main()
    started,     \* history: the (cmd, cwd) of every run_command() call, in order
    completed,   \* history: per finished run_command() call, what happened
    procs,       \* the child processes spawned so far, in spawn order
    log,         \* the lines printed so far
    exit_status  \* {} while the interpreter runs, {n} once it exited with n

vars == <<pc, fs, success, started, completed, procs, log, exit_status>>

-----------------------------------------------------------------------------
(* Bounds of the environment *)

\* return codes a child may exit with are 0..MaxReturnCode
MaxReturnCode == 2

ReturnCodes == 0..MaxReturnCode

\* what a child may have written to its stderr pipe
StderrTexts == {"", "npm ERR!"}

\* exceptions subprocess.run raises when the process cannot be created
LaunchErrors == {"FileNotFoundError", "PermissionError"}

-----------------------------------------------------------------------------
(* The static configuration hard-coded in main() *)

\* variant: the build step placed before the test step
BackendStepsBuildBeforeTest ==
    << [header |-> "Installing backend dependencies...", cmd |-> "npm install"],
       [header |-> "Building backend...",                cmd |-> "npm run build"],
       [header |-> "Running backend tests...",           cmd |-> "npm test -- --run"] >>

BackendSteps ==
    << [header |-> "Installing backend dependencies...", cmd |-> "npm install"],
       [header |-> "Running backend tests...",           cmd |-> "npm test -- --run"],
       [header |-> "Building backend...",                cmd |-> "npm run build"] >>

\* variant: the frontend unit given a test step like the backend's
FrontendStepsWithTest ==
    << [header |-> "Installing frontend dependencies...", cmd |-> "npm install"],
       [header |-> "Running frontend tests...",           cmd |-> "npm test -- --run"],
       [header |-> "Building frontend...",                cmd |-> "npm run build"] >>

FrontendSteps ==
    << [header |-> "Installing frontend dependencies...", cmd |-> "npm install"],
       [header |-> "Building frontend...",                cmd |-> "npm run build"] >>

Units ==
    << [name |-> "Backend",  dir |-> "backend",  steps |-> BackendSteps],
       [name |-> "Frontend", dir |-> "frontend", steps |-> FrontendSteps] >>

Dirs == {Units[u].dir : u \in DOMAIN Units}

At(a, u, i) == [at |-> a, unit |-> u, step |-> i]

-----------------------------------------------------------------------------
(* Pure pieces of the code *)

\* variant: only the directory is checked
ManifestPresentDirOnly(d) == d.exists

\* `X_dir.exists() and (X_dir / "package.json").exists()`
ManifestPresent(d) == d.exists /\ d.manifest

\* `result.returncode == 0`
Succeeded(returncode) == returncode = 0

\* variant: `except subprocess.CalledProcessError`
CaughtCalledProcessErrorOnly(e) == e = "CalledProcessError"

\* `except Exception`: everything but the BaseException-only classes
Caught(e) == e \notin {"KeyboardInterrupt", "SystemExit", "GeneratorExit"}

\* variant: `success |= <ret>`
OrAssign(s, ret) == s \/ ret

\* variant: `success = <ret>`
PlainAssign(s, ret) == ret

\* `success &= <ret>`
AndAssign(s, ret) == s /\ ret

\* variant: Popen without wait, the child is not awaited
WaitDoneNoWait(p) == TRUE

\* variant: a timeout gives up on a child that does not exit
WaitDoneTimeout(p) == p.state = "exited" \/ p.hung

\* subprocess.run blocks until the child has exited (no timeout argument)
WaitDone(p) == p.state = "exited"

\* variant: the `sys.exit(1)` is missing
ExitStatusAlwaysZero(s) == 0

\* falling off main() exits 0; `sys.exit(1)` on failure
ExitStatus(s) == IF s THEN 0 ELSE 1

\* where main() continues after the if/else of unit u
AfterUnit(u) ==
    IF u < Len(Units) THEN At("check", u + 1, 0) ELSE At("summary", 0, 0)

\* variant: the rest of a unit is skipped once a step failed
AfterStepShortCircuit(u, i, ret) ==
    IF ret /\ i < Len(Units[u].steps) THEN At("call", u, i + 1) ELSE AfterUnit(u)

\* where main() continues after step i of unit u returned ret:
\* the next statement, whatever ret is
AfterStep(u, i, ret) ==
    IF i < Len(Units[u].steps) THEN At("call", u, i + 1) ELSE AfterUnit(u)

-----------------------------------------------------------------------------
(* Initial state: main() has printed its banner and set success = True.    *)
(* A manifest can only exist inside an existing directory.                 *)

Init ==
    /\ pc = At("check", 1, 0)
    /\ fs \in [Dirs -> {d \in [exists : BOOLEAN, manifest : BOOLEAN] :
                            d.manifest => d.exists}]
    /\ success = TRUE
    /\ started = << >>
    /\ completed = << >>
    /\ procs = << >>
    /\ log = << <<"banner", "Setting up Oasis Hub development environment...">> >>
    /\ exit_status = {}

-----------------------------------------------------------------------------
(* Actions *)

\* the `if X_dir.exists() and (X_dir / "package.json").exists(): ... else:` of unit u
CheckUnit(u) ==
    /\ pc = At("check", u, 0)
    /\ IF ManifestPresent(fs[Units[u].dir])
         THEN /\ pc' = At("call", u, 1)
              /\ log' = log
         ELSE /\ pc' = AfterUnit(u)
              /\ log' = Append(log, <<"warning", Units[u].name,
                                      "directory not found or missing package.json">>)
    /\ UNCHANGED <<fs, success, started, completed, procs, exit_status>>

\* the header print of a step and the entry into run_command (line 13)
CallStep ==
    /\ pc.at = "call"
    /\ LET st == Units[pc.unit].steps[pc.step] IN
         /\ log' = log \o << <<"header", st.header>>, <<"Running", st.cmd>> >>
         /\ started' = Append(started, [cmd |-> st.cmd, cwd |-> Units[pc.unit].dir])
    /\ pc' = At("spawn", pc.unit, pc.step)
    /\ UNCHANGED <<fs, success, completed, procs, exit_status>>

\* subprocess.run creates the child; whether it will ever exit is the child's affair
SpawnOk ==
    /\ pc.at = "spawn"
    /\ \E h \in BOOLEAN :
         procs' = Append(procs, [state |-> "running", hung |-> h,
                                 returncode |-> 0, stderr |-> ""])
    /\ pc' = At("wait", pc.unit, pc.step)
    /\ UNCHANGED <<fs, success, started, completed, log, exit_status>>

\* subprocess.run raises: the child could not be created.  The except clause
\* prints and returns False, and main() folds that into success.
SpawnFail ==
    /\ pc.at = "spawn"
    /\ \E e \in LaunchErrors :
         LET cmd == Units[pc.unit].steps[pc.step].cmd IN
         IF Caught(e)
           THEN /\ log' = Append(log, <<"exception", cmd, e>>)
                /\ completed' = Append(completed,
                       [kind |-> "launch_failure", returncode |-> 0, ret |-> FALSE])
                /\ success' = AndAssign(success, FALSE)
                /\ pc' = AfterStep(pc.unit, pc.step, FALSE)
                /\ exit_status' = exit_status
           ELSE /\ log' = Append(log, <<"traceback", e>>)
                /\ pc' = At("crashed", 0, 0)
                /\ exit_status' = {1}
                /\ UNCHANGED <<completed, success>>
    /\ UNCHANGED <<fs, started, procs>>

\* environment: a running child that is not hung exits
ProcExit(p) ==
    /\ procs[p].state = "running"
    /\ ~procs[p].hung
    /\ \E rc \in ReturnCodes, err \in StderrTexts :
         procs' = [procs EXCEPT ![p] = [state |-> "exited", hung |-> FALSE,
                                         returncode |-> rc, stderr |-> err]]
    /\ UNCHANGED <<pc, fs, success, started, completed, log, exit_status>>

\* subprocess.run returns `result`; lines 21-27 print and return, and main()
\* folds the returned value into success.  The exited child is reaped.
RunReturn ==
    /\ pc.at = "wait"
    /\ LET p      == Len(procs)
           result == procs[p]
           cmd    == Units[pc.unit].steps[pc.step].cmd
           ret    == Succeeded(result.returncode)
       IN
         /\ WaitDone(result)
         /\ log' = IF ret
                     THEN Append(log, <<"ok", cmd>>)
                     ELSE log \o << <<"failed", cmd>>, <<"Error", result.stderr>> >>
         /\ completed' = Append(completed,
                [kind |-> "exit", returncode |-> result.returncode, ret |-> ret])
         /\ success' = AndAssign(success, ret)
         /\ pc' = AfterStep(pc.unit, pc.step, ret)
         /\ procs' = IF result.state = "exited"
                       THEN [procs EXCEPT ![p] = [state |-> "reaped", hung |-> FALSE,
                                                   returncode |-> 0, stderr |-> ""]]
                       ELSE procs
    /\ UNCHANGED <<fs, started, exit_status>>

\* the final if/else of main() and the exit of the interpreter
Summary ==
    /\ pc.at = "summary"
    /\ log' = IF success
                THEN log \o << <<"summary", "Setup completed successfully!">>,
                               <<"guidance", "Next steps:">>,
                               <<"guidance", "1. Backend: cd backend && npm run dev">>,
                               <<"guidance", "2. Frontend: cd frontend && npm run dev">>,
                               <<"guidance", "3. Configure .env files for optional integrations">> >>
                ELSE Append(log, <<"summary", "Setup encountered some errors">>)
    /\ exit_status' = {ExitStatus(success)}
    /\ pc' = At("exited", 0, 0)
    /\ UNCHANGED <<fs, success, started, completed, procs>>

Next ==
    \/ \E u \in DOMAIN Units : CheckUnit(u)
    \/ CallStep
    \/ SpawnOk
    \/ SpawnFail
    \/ \E p \in DOMAIN procs : ProcExit(p)
    \/ RunReturn
    \/ Summary

Spec == Init /\ [][Next]_vars

\* The interpreter keeps executing, and a child that is not hung does exit.
FairSpec == Spec /\ WF_vars(Next)

-----------------------------------------------------------------------------
(* Vocabulary of the properties, stated apart from the code's own helpers *)

\* the interpreter left main() through its last statement
Exited == pc.at = "exited"

\* directory and package.json of unit u both exist
Present(u) == fs[Units[u].dir].exists /\ fs[Units[u].dir].manifest

\* main() is past the if/else of unit u
PastUnit(u) == pc.at \in {"summary", "exited"} \/ pc.unit > u

\* what the environment did to a finished step made it fail
StepFailed(c) == c.kind = "launch_failure" \/ c.returncode /= 0

IsPrefix(s, t) == Len(s) <= Len(t) /\ \A i \in DOMAIN s : s[i] = t[i]

InBackend(s) == s.cwd = "backend"

InFrontend(s) == s.cwd = "frontend"

BackendPlan ==
    << [cmd |-> "npm install",       cwd |-> "backend"],
       [cmd |-> "npm test -- --run", cwd |-> "backend"],
       [cmd |-> "npm run build",     cwd |-> "backend"] >>

FrontendPlan ==
    << [cmd |-> "npm install",   cwd |-> "frontend"],
       [cmd |-> "npm run build", cwd |-> "frontend"] >>

\* the steps a run executes, as a function of manifest presence alone
PlannedSteps ==
    (IF Present(1) THEN BackendPlan ELSE << >>) \o
    (IF Present(2) THEN FrontendPlan ELSE << >>)

Running == {p \in DOMAIN procs : procs[p].state = "running"}

\* the sequencer is blocked on a child that never exits
Blocked ==
    /\ pc.at = "wait"
    /\ procs[Len(procs)].state = "running"
    /\ procs[Len(procs)].hung

Printed(kind) == {k \in DOMAIN log : log[k][1] = kind}

-----------------------------------------------------------------------------
\* C1: when main() finishes, success is false if and only if at least one
\* executed step failed (non-zero exit or launch failure), wherever in the
\* run the failing step is.
C1_SuccessFalseIffSomeStepFailed ==
    Exited =>
        /\ Len(completed) = Len(started)
        /\ (success = FALSE) <=> (\E i \in DOMAIN completed : StepFailed(completed[i]))

\* both units ran, only the very first step failed, and the flag is false
C1_Witness ==
    /\ Exited
    /\ Len(completed) = 5
    /\ completed[1].kind = "exit" /\ completed[1].returncode = 2
    /\ \A i \in 2..5 : ~StepFailed(completed[i])
    /\ ~success

\* C2: with the backend manifest present the backend steps start in the
\* order install, test, build, and test and build still run after an
\* earlier backend step failed.
C2_BackendOrderNoShortCircuit ==
    Present(1) =>
        /\ IsPrefix(SelectSeq(started, InBackend), BackendPlan)
        /\ PastUnit(1) => SelectSeq(started, InBackend) = BackendPlan

\* install failed, and test and build were run all the same
C2_Witness ==
    /\ Present(1) /\ PastUnit(1)
    /\ StepFailed(completed[1])
    /\ SelectSeq(started, InBackend) = BackendPlan

\* C3: a unit whose directory or manifest is absent runs no step, gets a
\* warning naming it, and does not turn success false; with both units
\* absent the run ends with success true.
C3_AbsentUnitSkipped ==
    /\ \A u \in DOMAIN Units :
         ~Present(u) =>
            /\ \A i \in DOMAIN started : started[i].cwd /= Units[u].dir
            /\ PastUnit(u) =>
                  Cardinality({k \in Printed("warning") : log[k][2] = Units[u].name}) = 1
            /\ (\A i \in DOMAIN completed : ~StepFailed(completed[i])) => success
    /\ \A u \in DOMAIN Units :
         Present(u) => \A k \in Printed("warning") : log[k][2] /= Units[u].name
    /\ (Exited /\ \A u \in DOMAIN Units : ~Present(u)) =>
            started = << >> /\ success /\ exit_status = {0}

\* the backend directory exists without a package.json: it is skipped with
\* a warning while the frontend runs
C3_Witness ==
    /\ Exited
    /\ fs["backend"].exists /\ ~fs["backend"].manifest
    /\ Present(2)
    /\ Len(started) = 2
    /\ \E k \in Printed("warning") : log[k][2] = "Backend"
    /\ success

\* C4: a step whose command cannot be launched counts as a failed step:
\* run_command returns false, success is false from then on, nothing
\* propagates out of run_command, and all later steps are still executed.
C4_LaunchFailureIsAFailedStep ==
    /\ pc.at /= "crashed"
    /\ \A i \in DOMAIN completed :
         completed[i].kind = "launch_failure" => ~completed[i].ret /\ ~success
    /\ (Exited /\ \E i \in DOMAIN completed : completed[i].kind = "launch_failure") =>
            started = PlannedSteps /\ Len(completed) = Len(started)

\* the first backend command could not be launched, the four later steps ran
C4_Witness ==
    /\ Exited
    /\ Len(completed) = 5
    /\ completed[1].kind = "launch_failure"
    /\ \A i \in 2..5 : completed[i].kind = "exit"

\* C5: the run ends either with the success line, the guidance and status
\* 0 (success true) or with the error summary, no guidance and status 1
\* (success false); nothing of this happens before every eligible step ran.
C5_ExitContract ==
    /\ exit_status = {} => Printed("summary") = {} /\ Printed("guidance") = {}
    /\ exit_status /= {} =>
         /\ started = PlannedSteps /\ Len(completed) = Len(started)
         /\ Cardinality(Printed("summary")) = 1
         /\ IF success
              THEN /\ exit_status = {0}
                   /\ \E k \in Printed("summary") : log[k][2] = "Setup completed successfully!"
                   /\ Cardinality(Printed("guidance")) = 4
              ELSE /\ exit_status = {1}
                   /\ \E k \in Printed("summary") : log[k][2] = "Setup encountered some errors"
                   /\ Printed("guidance") = {}

\* a run that failed: error summary, status 1
C5_Witness ==
    /\ exit_status = {1}
    /\ ~success
    /\ log[Len(log)] = <<"summary", "Setup encountered some errors">>

\* C6: one fixed total order, backend before frontend, no overlap: at most
\* one child runs at a time, and a step starts only after the previous
\* step's child has exited and its outcome was recorded.
C6_StrictlySequential ==
    /\ Cardinality(Running) <= 1
    /\ \A p \in DOMAIN procs : p < Len(procs) => procs[p].state = "reaped"
    /\ \A i, j \in DOMAIN started :
         (i < j /\ InFrontend(started[i])) => InFrontend(started[j])
    /\ Len(completed) <= Len(started) /\ Len(started) <= Len(completed) + 1
    /\ pc.at \in {"check", "call", "summary", "exited"} =>
            Running = {} /\ Len(completed) = Len(started)
    /\ Len(procs) <= Len(started)

\* the child of the fourth step runs while the three before it are gone
C6_Witness ==
    /\ Len(procs) = 4
    /\ Running = {4}
    /\ InFrontend(started[4])

\* C7: each step of a present unit is executed exactly once whatever its
\* outcome: three backend steps, two frontend steps, 3b + 2f in total.
C7_EachStepExactlyOnce ==
    /\ \A i, j \in DOMAIN started : i /= j => started[i] /= started[j]
    /\ Exited =>
         /\ Len(SelectSeq(started, InBackend)) = (IF Present(1) THEN 3 ELSE 0)
         /\ Len(SelectSeq(started, InFrontend)) = (IF Present(2) THEN 2 ELSE 0)
         /\ Len(started) = (IF Present(1) THEN 3 ELSE 0) + (IF Present(2) THEN 2 ELSE 0)
         /\ Len(completed) = Len(started)
         /\ \A s \in {BackendPlan[i] : i \in DOMAIN BackendPlan} :
               Present(1) => Cardinality({i \in DOMAIN started : started[i] = s}) = 1
         /\ \A s \in {FrontendPlan[i] : i \in DOMAIN FrontendPlan} :
               Present(2) => Cardinality({i \in DOMAIN started : started[i] = s}) = 1

\* five steps ran, some of them failing, none of them twice
C7_Witness ==
    /\ Exited
    /\ Len(started) = 5
    /\ StepFailed(completed[2]) /\ StepFailed(completed[4])

\* C8: there is no timeout: once blocked on a child that never exits the
\* sequencer stays there, starts nothing and never gets an exit status;
\* and a run none of whose children hangs does end with an exit status.
C8_HangBlocksElseTerminates ==
    /\ [](Blocked => exit_status = {})
    /\ [][Blocked => (Blocked' /\ pc' = pc /\ started' = started
                        /\ completed' = completed /\ exit_status' = exit_status)]_vars
    /\ <>(exit_status /= {} \/ Blocked)

\* blocked on the hung second step after the first one went through
C8_Witness ==
    /\ Blocked
    /\ Len(started) = 2
    /\ Len(completed) = 1

\* C9: the run is a function of its inputs: the steps executed are the
\* planned ones for the manifests present, whatever the outcomes, and the
\* final flag and exit status are determined by the outcomes of the steps.
C9_Deterministic ==
    /\ IsPrefix(started, PlannedSteps)
    /\ \A i \in DOMAIN completed : completed[i].ret = ~StepFailed(completed[i])
    /\ Exited =>
         /\ started = PlannedSteps
         /\ Len(completed) = Len(PlannedSteps)
         /\ success = (\A i \in DOMAIN completed : ~StepFailed(completed[i]))
         /\ exit_status =
               {IF \A i \in DOMAIN completed : ~StepFailed(completed[i]) THEN 0 ELSE 1}

\* a finished run with mixed outcomes
C9_Witness ==
    /\ Exited
    /\ started = BackendPlan \o FrontendPlan
    /\ StepFailed(completed[1]) /\ ~StepFailed(completed[2]) /\ StepFailed(completed[3])
    /\ exit_status = {1}

\* C10: at every point success is the AND of the results of the steps
\* completed so far, and once false it never becomes true again.
C10_RunningAndMonotone ==
    /\ [](success = (\A i \in DOMAIN completed : completed[i].ret))
    /\ [][~success => ~success']_vars

\* a step succeeded after an earlier one had failed, and the flag stayed false
C10_Witness ==
    /\ Len(completed) >= 2
    /\ ~completed[1].ret
    /\ completed[Len(completed)].ret
    /\ ~success

====
